---------------------------- MODULE Spec2Model ----------------------------
(***************************************************************************)
(* remark-code-snippets: the transformer of packages/code-snippets/src/    *)
(* index.ts.  A document tree holds import nodes (mdxjsEsm) and code       *)
(* blocks; a code block whose meta carries code={name} gets its value      *)
(* replaced by the template literal that the imported module binds to      *)
(* name, optionally formatted by prettier.                                 *)
(*                                                                         *)
(* JavaScript strings are sequences of one-character strings, so that      *)
(* startsWith, replace, trim, the two regular expressions and path.resolve *)
(* are computed character by character as the runtime computes them.       *)
(***************************************************************************)
EXTENDS Integers, Sequences, FiniteSets, TLC

VARIABLES
    tree,        \* the code nodes of the document: [meta, lang, value]
    esm,         \* the mdxjsEsm nodes of the document (parsed form)
    files,       \* the file system: path -> parsed module
    options,     \* the options handed to remarkCodeSnippets
    dirname,     \* file.dirname of the document
    pc,          \* where the transformer is
    idx,         \* the node the running visit() is at
    importMap,   \* own properties of importMap
    promises,    \* the formatPromise list
    outcome,     \* the promise transformer() returned
    fsLog,       \* calls made to resolveModulePath / fs, per block
    joins,       \* calls of Promise.all in this run
    pass,        \* which run of the transformer on this tree
    treeBefore,  \* the tree as the current run received it
    substituted, \* blocks the current run substituted
    substPrev,   \* blocks the previous run substituted
    arg,         \* input of a function applied on its own
    ret          \* its result

vars == <<tree, esm, files, options, dirname, pc, idx, importMap, promises,
          outcome, fsLog, joins, pass, treeBefore, substituted, substPrev,
          arg, ret>>

runVars == <<tree, esm, pc, idx, importMap, promises, outcome, fsLog, joins,
             pass, treeBefore, substituted, substPrev>>

-----------------------------------------------------------------------------
(* Bounds of the model.                                                    *)

\* code blocks in a document
MaxBlocks == 2
\* files present on the file system of a resolution on its own
MaxFiles == 2
\* top-level statements of a module handed to the extraction on its own
MaxStmts == 2

-----------------------------------------------------------------------------
(* Strings.                                                                *)

WhiteSpace == {" ", "\t", "\n"}

\* [a-zA-Z0-9_]
IdentChars ==
    {"a", "b", "c", "d", "e", "f", "g", "h", "i", "j", "k", "l", "m", "n",
     "o", "p", "q", "r", "s", "t", "u", "v", "w", "x", "y", "z", "A", "B",
     "C", "D", "E", "F", "G", "H", "I", "J", "K", "L", "M", "N", "O", "P",
     "Q", "R", "S", "T", "U", "V", "W", "X", "Y", "Z", "0", "1", "2", "3",
     "4", "5", "6", "7", "8", "9", "_"}

\* s.startsWith(p)
StartsWith(s, p) == Len(p) <= Len(s) /\ SubSeq(s, 1, Len(p)) = p

\* s.slice(n)
Slice(s, n) == SubSeq(s, n + 1, Len(s))

\* p occurs in s at (1-based) position i
OccursAt(s, p, i) == i + Len(p) - 1 <= Len(s) /\ SubSeq(s, i, i + Len(p) - 1) = p

\* s.indexOf(p), 1-based; 0 when p does not occur
IndexOf(s, p) ==
    LET hits == {i \in 1..(Len(s) + 1) : OccursAt(s, p, i)}
    IN  IF hits = {} THEN 0 ELSE CHOOSE i \in hits : \A j \in hits : i <= j

\* s.includes(p)
Includes(s, p) == IndexOf(s, p) # 0

\* s.replace(p, '') with a string pattern: the first occurrence only
ReplaceFirstWithEmpty(s, p) ==
    LET i == IndexOf(s, p)
    IN  IF i = 0 THEN s ELSE SubSeq(s, 1, i - 1) \o Slice(s, i + Len(p) - 1)

\* length of the longest run of characters of cs in s starting at position i
RECURSIVE RunLength(_, _, _)
RunLength(s, i, cs) ==
    IF i <= Len(s) /\ s[i] \in cs THEN 1 + RunLength(s, i + 1, cs) ELSE 0

RECURSIVE TrimStart(_)
TrimStart(s) ==
    IF s # <<>> /\ s[1] \in WhiteSpace THEN TrimStart(Tail(s)) ELSE s

RECURSIVE TrimEnd(_)
TrimEnd(s) ==
    IF s # <<>> /\ s[Len(s)] \in WhiteSpace
    THEN TrimEnd(SubSeq(s, 1, Len(s) - 1))
    ELSE s

\* s.trim()
Trim(s) == TrimEnd(TrimStart(s))

\* the concatenation of a sequence of strings: parts.join('')
RECURSIVE JoinEmpty(_)
JoinEmpty(parts) ==
    IF parts = <<>> THEN <<>> ELSE Head(parts) \o JoinEmpty(Tail(parts))

-----------------------------------------------------------------------------
(* path.resolve on a POSIX host.                                           *)

\* process.cwd()
Cwd == <<"/", "w">>

IsAbsolute(p) == p # <<>> /\ p[1] = "/"

\* p.split('/')
RECURSIVE Split(_)
Split(p) ==
    LET i == IndexOf(p, <<"/">>)
    IN  IF i = 0 THEN <<p>>
        ELSE <<SubSeq(p, 1, i - 1)>> \o Split(Slice(p, i))

\* normalizeString of an absolute path: drops '' and '.', and '..' pops
RECURSIVE NormalizeSegments(_, _)
NormalizeSegments(segs, acc) ==
    IF segs = <<>> THEN acc
    ELSE LET s == Head(segs)
         IN  IF s = <<>> \/ s = <<".">>
             THEN NormalizeSegments(Tail(segs), acc)
             ELSE IF s = <<".", ".">>
             THEN NormalizeSegments(Tail(segs),
                      IF acc = <<>> THEN acc ELSE SubSeq(acc, 1, Len(acc) - 1))
             ELSE NormalizeSegments(Tail(segs), Append(acc, s))

RECURSIVE JoinSegments(_)
JoinSegments(segs) ==
    IF segs = <<>> THEN <<>>
    ELSE <<"/">> \o Head(segs) \o JoinSegments(Tail(segs))

\* path.resolve(from, to): the arguments are taken right to left until one
\* is absolute, process.cwd() last; the result is normalized.
PathResolve(from, to) ==
    LET joined == IF IsAbsolute(to) THEN to
                  ELSE IF IsAbsolute(from) THEN from \o <<"/">> \o to
                  ELSE Cwd \o <<"/">> \o from \o <<"/">> \o to
        segs   == NormalizeSegments(Split(joined), <<>>)
    IN  IF segs = <<>> THEN <<"/">> ELSE JoinSegments(segs)

-----------------------------------------------------------------------------
(* defaultOptions and mergedOptions.                                       *)

\* '@code'
AtCode == <<"@", "c", "o", "d", "e">>

\* 'src/code-snippets'
SrcCodeSnippets ==
    <<"s", "r", "c", "/", "c", "o", "d", "e", "-", "s", "n", "i", "p", "p",
      "e", "t", "s">>

DefaultAliases ==
    <<[alias |-> AtCode, aliasPath |-> PathResolve(Cwd, SrcCodeSnippets)]>>

DefaultExtensions ==
    << <<".", "t", "s">>,
       <<".", "t", "s", "x">>,
       <<".", "j", "s">>,
       <<".", "j", "s", "x">>,
       <<"/", "i", "n", "d", "e", "x", ".", "t", "s">>,
       <<"/", "i", "n", "d", "e", "x", ".", "t", "s", "x">>,
       <<"/", "i", "n", "d", "e", "x", ".", "j", "s">>,
       <<"/", "i", "n", "d", "e", "x", ".", "j", "s", "x">> >>

AliasKeys(table) == {table[i].alias : i \in DOMAIN table}

AliasValue(table, key) ==
    table[CHOOSE i \in DOMAIN table : table[i].alias = key].aliasPath

\* entries of table whose key is not in keys, in order
RECURSIVE WithoutKeys(_, _)
WithoutKeys(table, keys) ==
    IF table = <<>> THEN <<>>
    ELSE IF Head(table).alias \in keys THEN WithoutKeys(Tail(table), keys)
    ELSE <<Head(table)>> \o WithoutKeys(Tail(table), keys)

\* { ...defaultOptions.aliases, ...(options.aliases || {}) } as Object.entries
\* lists it: a key keeps the place of its first insertion and takes the
\* value written last.
MergedAliases(opts) ==
    [i \in DOMAIN DefaultAliases |->
        IF DefaultAliases[i].alias \in AliasKeys(opts.aliases)
        THEN [alias     |-> DefaultAliases[i].alias,
              aliasPath |-> AliasValue(opts.aliases, DefaultAliases[i].alias)]
        ELSE DefaultAliases[i]]
    \o WithoutKeys(opts.aliases, AliasKeys(DefaultAliases))

\* a variant that probes the caller's list before the defaults
MergedExtensionsCallerFirst(opts) == opts.extensions \o DefaultExtensions

\* [...defaultOptions.extensions, ...(options.extensions || [])]
MergedExtensions(opts) == DefaultExtensions \o opts.extensions

-----------------------------------------------------------------------------
(* resolveModulePath.                                                      *)

\* fs.existsSync
ExistsSync(fs, path) == path \in DOMAIN fs

\* the for..of over Object.entries(aliases): the first alias with
\* sourcePath.startsWith(`${alias}/`) sets basePath and breaks
RECURSIVE AliasBasePath(_, _)
AliasBasePath(sourcePath, aliases) ==
    IF aliases = <<>> THEN sourcePath
    ELSE LET prefix == Head(aliases).alias \o <<"/">>
         IN  IF StartsWith(sourcePath, prefix)
             THEN PathResolve(Head(aliases).aliasPath,
                              ReplaceFirstWithEmpty(sourcePath, prefix))
             ELSE AliasBasePath(sourcePath, Tail(aliases))

\* lines 82-95
BasePathOf(sourcePath, dir, opts) ==
    LET basePath == AliasBasePath(sourcePath, MergedAliases(opts))
    IN  IF basePath = sourcePath THEN PathResolve(dir, sourcePath)
        ELSE basePath

\* the for..of over tryExtensions: the index of the first extension whose
\* path exists, 0 when none does
RECURSIVE FirstExisting(_, _, _, _)
FirstExisting(fs, basePath, exts, i) ==
    IF i > Len(exts) THEN 0
    ELSE IF ExistsSync(fs, basePath \o exts[i]) THEN i
    ELSE FirstExisting(fs, basePath, exts, i + 1)

\* the return of line 102 (hit is the index of the extension found) and
\* the throw of lines 105-109 (hit is 0)
ProbeResult(basePath, exts, hit) ==
    IF hit # 0
    THEN [kind     |-> "ok",
          path     |-> basePath \o exts[hit],
          basePath |-> basePath,
          probed   |-> [i \in 1..hit |-> basePath \o exts[i]]]
    ELSE [kind     |-> "ResolutionError",
          path     |-> <<>>,
          basePath |-> basePath,
          probed   |-> [i \in 1..Len(exts) |-> basePath \o exts[i]]]

\* lines 98-109: the probe of basePath + ext
ProbeExtensions(basePath, opts, fs) ==
    ProbeResult(basePath, MergedExtensions(opts),
                FirstExisting(fs, basePath, MergedExtensions(opts), 1))

ResolveModulePath(sourcePath, dir, opts, fs) ==
    ProbeExtensions(BasePathOf(sourcePath, dir, opts), opts, fs)

-----------------------------------------------------------------------------
(* The syntax trees acorn returns, and acornWalk.simple.                   *)

NoInit == [type |-> "null"]

Identifier(name) == [type |-> "Identifier", name |-> name]

TemplateLiteral(quasis, expressions) ==
    [type |-> "TemplateLiteral", quasis |-> quasis, expressions |-> expressions]

Declarator(id, init) == [id |-> id, init |-> init]

VariableDeclaration(declarations) ==
    [type |-> "VariableDeclaration", declarations |-> declarations]

\* const name = `text`;
ConstTemplate(name, text) ==
    VariableDeclaration(
        <<Declarator(Identifier(name), TemplateLiteral(<<text>>, <<>>))>>)

ExportNamed(declaration) ==
    [type |-> "ExportNamedDeclaration", declaration |-> declaration]

FunctionDeclaration(body) == [type |-> "FunctionDeclaration", body |-> body]

BlockStatement(body) == [type |-> "BlockStatement", body |-> body]

ArrowFunction(body) == [type |-> "ArrowFunctionExpression", body |-> body]

StringLiteral == [type |-> "Literal"]

Program(body) == [type |-> "Program", body |-> body]

\* acornParse threw
SyntaxError == [type |-> "SyntaxError"]

RECURSIVE WalkOrder(_)
RECURSIVE WalkAll(_)
RECURSIVE WalkInits(_)

\* acornWalk.simple(ast, {VariableDeclaration}): the base visitor descends
\* into every child of a node and the callback of the node runs after it.
\* The result is the declarations in the order their callbacks run.
WalkOrder(node) ==
    CASE node.type \in {"Program", "FunctionDeclaration", "BlockStatement",
                        "ArrowFunctionExpression"} -> WalkAll(node.body)
      [] node.type = "ExportNamedDeclaration" -> WalkOrder(node.declaration)
      [] node.type = "VariableDeclaration" ->
             WalkInits(node.declarations) \o <<node>>
      [] node.type = "TemplateLiteral" -> WalkAll(node.expressions)
      [] OTHER -> <<>>

WalkAll(nodes) ==
    IF nodes = <<>> THEN <<>>
    ELSE WalkOrder(Head(nodes)) \o WalkAll(Tail(nodes))

WalkInits(declarators) ==
    IF declarators = <<>> THEN <<>>
    ELSE WalkOrder(Head(declarators).init) \o WalkInits(Tail(declarators))

\* the condition of the if in the VariableDeclaration callback
DeclaratorMatches(d, varName) ==
    /\ d.id.type = "Identifier"
    /\ d.id.name = varName
    /\ d.init.type = "TemplateLiteral"

\* d.init.quasis.map(q => q.value.cooked).join('')
CookedText(d) == JoinEmpty(d.init.quasis)

\* foundCode: null, or the string assigned last
NullCode == [isNull |-> TRUE, code |-> <<>>]

\* the for..of over decl.declarations in the callback
RECURSIVE VisitDeclarators(_, _, _)
VisitDeclarators(declarators, varName, found) ==
    IF declarators = <<>> THEN found
    ELSE VisitDeclarators(Tail(declarators), varName,
             IF DeclaratorMatches(Head(declarators), varName)
             THEN [isNull |-> FALSE, code |-> CookedText(Head(declarators))]
             ELSE found)

RECURSIVE VisitDeclarations(_, _, _)
VisitDeclarations(decls, varName, found) ==
    IF decls = <<>> THEN found
    ELSE VisitDeclarations(Tail(decls), varName,
             VisitDeclarators(Head(decls).declarations, varName, found))

\* lines 119-133: let foundCode = null; acornWalk.simple(sourceAST, ...)
FoundCode(ast, varName) == VisitDeclarations(WalkOrder(ast), varName, NullCode)

\* !foundCode: null and '' are falsy
IsFalsyCode(found) == found.isNull \/ found.code = <<>>

\* lines 113-140: the module at absolutePath parsed, walked, and the throw
ExtractCode(module, varName) ==
    IF module.type = "SyntaxError"
    THEN [kind |-> "SyntaxError", code |-> <<>>]
    ELSE LET found == FoundCode(module, varName)
         IN  IF IsFalsyCode(found)
             THEN [kind |-> "ExtractionError", code |-> <<>>]
             ELSE [kind |-> "ok", code |-> found.code]

-----------------------------------------------------------------------------
(* Inputs.                                                                 *)

\* file.dirname
DocDir == <<"/", "d">>

NameA == <<"a">>
NameB == <<"b">>

\* '@code/demo'
SpecifierDemo == <<"@", "c", "o", "d", "e", "/", "d", "e", "m", "o">>

SpecifierPool ==
    { SpecifierDemo,
      \* '@code//demo'
      <<"@", "c", "o", "d", "e", "/", "/", "d", "e", "m", "o">>,
      \* '@codex/demo'
      <<"@", "c", "o", "d", "e", "x", "/", "d", "e", "m", "o">>,
      \* '@code/../demo'
      <<"@", "c", "o", "d", "e", "/", ".", ".", "/", "d", "e", "m", "o">>,
      \* './demo'
      <<".", "/", "d", "e", "m", "o">>,
      \* '../q/demo'
      <<".", ".", "/", "q", "/", "d", "e", "m", "o">>,
      \* '~/demo'
      <<"~", "/", "d", "e", "m", "o">>,
      \* '~/q/demo'
      <<"~", "/", "q", "/", "d", "e", "m", "o">> }

\* options.aliases, in insertion order; alias paths are absolute
CallerAliasPool ==
    { <<>>,
      \* {'@code': '/q'}
      <<[alias |-> AtCode, aliasPath |-> <<"/", "q">>]>>,
      \* {'~': '/d', '~/q': '/w'}
      <<[alias |-> <<"~">>, aliasPath |-> <<"/", "d">>],
        [alias |-> <<"~", "/", "q">>, aliasPath |-> <<"/", "w">>]>> }

\* options.extensions
CallerExtensionPool == { <<>>, << <<".", "m", "d", "x">> >> }

DefaultOnly == [aliases |-> <<>>, extensions |-> <<>>]

\* the paths a file system may hold
BasePool ==
    { PathResolve(Cwd, SrcCodeSnippets) \o <<"/", "d", "e", "m", "o">>,
      <<"/", "d", "/", "d", "e", "m", "o">>,
      <<"/", "q", "/", "d", "e", "m", "o">>,
      <<"/", "d", "e", "m", "o">> }

FileExtensionPool ==
    { <<".", "t", "s">>, <<".", "j", "s">>,
      <<"/", "i", "n", "d", "e", "x", ".", "t", "s">>,
      <<".", "m", "d", "x">> }

FileUniverse == {b \o e : b \in BasePool, e \in FileExtensionPool}

RECURSIVE SubsetsUpTo(_, _)
SubsetsUpTo(U, k) ==
    IF k = 0 THEN {{}}
    ELSE LET S == SubsetsUpTo(U, k - 1)
         IN  S \cup {s \cup {x} : s \in S, x \in U}

RECURSIVE SeqsUpTo(_, _)
SeqsUpTo(S, k) ==
    IF k = 0 THEN {<<>>}
    ELSE LET R == SeqsUpTo(S, k - 1)
         IN  R \cup {Append(r, x) : r \in R, x \in S}

\* the statements a module is made of
StatementPool ==
    { ConstTemplate(NameA, <<>>),
      ConstTemplate(NameA, <<" ">>),
      ConstTemplate(NameA, <<" ", "x", " ">>),
      ExportNamed(ConstTemplate(NameA, <<"y">>)),
      ConstTemplate(NameB, <<"z">>),
      \* const a = 'x';
      VariableDeclaration(<<Declarator(Identifier(NameA), StringLiteral)>>),
      \* let a;
      VariableDeclaration(<<Declarator(Identifier(NameA), NoInit)>>),
      \* const a = `p${'x'}q`;
      VariableDeclaration(
          <<Declarator(Identifier(NameA),
                TemplateLiteral(<< <<"p">>, <<"q">> >>, <<StringLiteral>>))>>),
      \* var a = `u`, a = `v`;
      VariableDeclaration(
          <<Declarator(Identifier(NameA), TemplateLiteral(<< <<"u">> >>, <<>>)),
            Declarator(Identifier(NameA), TemplateLiteral(<< <<"v">> >>, <<>>))>>),
      \* function f() { const a = `n`; }
      FunctionDeclaration(<<ConstTemplate(NameA, <<"n">>)>>),
      \* { const a = `k`; }
      BlockStatement(<<ConstTemplate(NameA, <<"k">>)>>),
      \* const b = `p${(() => { const a = `i`; })()}q`;
      VariableDeclaration(
          <<Declarator(Identifier(NameB),
                TemplateLiteral(<< <<"p">>, <<"q">> >>,
                    <<ArrowFunction(<<ConstTemplate(NameA, <<"i">>)>>)>>))>>) }

Pending == [kind |-> "pending"]

\* no transformer is running
IdleRun ==
    /\ tree = <<>>
    /\ esm = <<>>
    /\ pc = "idle"
    /\ idx = 0
    /\ importMap = <<>>
    /\ promises = <<>>
    /\ outcome = [state |-> "none"]
    /\ fsLog = <<>>
    /\ joins = 0
    /\ pass = 0
    /\ treeBefore = <<>>
    /\ substituted = {}
    /\ substPrev = {}

-----------------------------------------------------------------------------
(* resolveModulePath on its own.                                           *)

InitResolve ==
    /\ IdleRun
    /\ arg \in [sourcePath : SpecifierPool]
    /\ options \in [aliases : CallerAliasPool, extensions : CallerExtensionPool]
    /\ dirname = DocDir
    /\ files \in {[p \in S |-> Program(<<>>)] :
                     S \in SubsetsUpTo(FileUniverse, MaxFiles)}
    /\ ret = Pending

ResolveCall ==
    /\ ret = Pending
    /\ ret' = ResolveModulePath(arg.sourcePath, dirname, options, files)
    /\ UNCHANGED <<runVars, files, options, dirname, arg>>

SpecResolve == InitResolve /\ [][ResolveCall]_vars

-----------------------------------------------------------------------------
(* The extraction on its own.                                              *)

InitExtract ==
    /\ IdleRun
    /\ arg \in [module  : {SyntaxError} \cup
                          {Program(b) : b \in SeqsUpTo(StatementPool, MaxStmts)},
                varName : {NameA, NameB}]
    /\ options = DefaultOnly
    /\ dirname = DocDir
    /\ files = <<>>
    /\ ret = Pending

ExtractCall ==
    /\ ret = Pending
    /\ ret' = ExtractCode(arg.module, arg.varName)
    /\ UNCHANGED <<runVars, files, options, dirname, arg>>

SpecExtract == InitExtract /\ [][ExtractCall]_vars

-----------------------------------------------------------------------------
(* The markers of a code node's meta.                                      *)

\* 'code={'
CodeEq == <<"c", "o", "d", "e", "=", "{">>

\* length of the longest run of characters other than c in s from position i
RECURSIVE RunLengthNot(_, _, _)
RunLengthNot(s, i, c) ==
    IF i <= Len(s) /\ s[i] # c THEN 1 + RunLengthNot(s, i + 1, c) ELSE 0

\* /code=\{([a-zA-Z0-9_]+)\}/ matches at position i
MarkerAt(meta, i) ==
    LET from == i + Len(CodeEq)
        n    == RunLength(meta, from, IdentChars)
    IN  /\ OccursAt(meta, CodeEq, i)
        /\ n >= 1
        /\ from + n <= Len(meta)
        /\ meta[from + n] = "}"

NoMatch == [matched |-> FALSE, name |-> <<>>]

\* a variant that matches the identifier with the class of the strip
\* pattern, [^}]+
MatchMarkerAnyName(meta) ==
    LET hits == {i \in 1..Len(meta) :
                    LET from == i + Len(CodeEq)
                        n    == RunLengthNot(meta, from, "}")
                    IN  /\ OccursAt(meta, CodeEq, i)
                        /\ n >= 1
                        /\ from + n <= Len(meta)}
    IN  IF hits = {} THEN NoMatch
        ELSE LET i    == CHOOSE h \in hits : \A j \in hits : h <= j
                 from == i + Len(CodeEq)
             IN  [matched |-> TRUE,
                  name    |-> SubSeq(meta, from,
                                  from + RunLengthNot(meta, from, "}") - 1)]

\* node.meta.match(/code=\{([a-zA-Z0-9_]+)\}/): the leftmost match, and
\* match[1]
MatchMarker(meta) ==
    LET hits == {i \in 1..Len(meta) : MarkerAt(meta, i)}
    IN  IF hits = {} THEN NoMatch
        ELSE LET i    == CHOOSE h \in hits : \A j \in hits : h <= j
                 from == i + Len(CodeEq)
             IN  [matched |-> TRUE,
                  name    |-> SubSeq(meta, from,
                                  from + RunLength(meta, from, IdentChars) - 1)]

\* /code=\{[^}]+\}\s*/ matches at position i
StripAt(meta, i) ==
    LET from == i + Len(CodeEq)
        n    == RunLengthNot(meta, from, "}")
    IN  /\ OccursAt(meta, CodeEq, i)
        /\ n >= 1
        /\ from + n <= Len(meta)

\* node.meta.replace(/code=\{[^}]+\}\s*/, '').trim(): the leftmost match
\* with the white space after it is removed
StripMarker(meta) ==
    LET hits == {i \in 1..Len(meta) : StripAt(meta, i)}
    IN  IF hits = {} THEN Trim(meta)
        ELSE LET i     == CHOOSE h \in hits : \A j \in hits : h <= j
                 from  == i + Len(CodeEq)
                 close == from + RunLengthNot(meta, from, "}")
                 ws    == RunLength(meta, close + 1, WhiteSpace)
             IN  Trim(SubSeq(meta, 1, i - 1) \o Slice(meta, close + ws))

\* line 63: !node.meta || !node.meta.includes('code={')
LacksCodeEq(meta) == meta = <<>> \/ ~ Includes(meta, CodeEq)

-----------------------------------------------------------------------------
(* The import index.                                                       *)

ImportSpecifier(local) == [type |-> "ImportSpecifier", local |-> local]

ImportDefaultSpecifier(local) ==
    [type |-> "ImportDefaultSpecifier", local |-> local]

ImportDeclaration(specifiers, source) ==
    [type |-> "ImportDeclaration", specifiers |-> specifiers, source |-> source]

\* importMap[key] = value
MapSet(map, key, value) ==
    [k \in DOMAIN map \cup {key} |-> IF k = key THEN value ELSE map[k]]

\* the for..of over decl.specifiers
RECURSIVE RecordSpecifiers(_, _, _)
RecordSpecifiers(specifiers, source, map) ==
    IF specifiers = <<>> THEN map
    ELSE RecordSpecifiers(Tail(specifiers), source,
             IF Head(specifiers).type = "ImportSpecifier"
             THEN MapSet(map, Head(specifiers).local, source)
             ELSE map)

\* acornWalk.simple(ast, {ImportDeclaration}) over the body of the node
RECURSIVE RecordImports(_, _)
RecordImports(body, map) ==
    IF body = <<>> THEN map
    ELSE RecordImports(Tail(body),
             IF Head(body).type = "ImportDeclaration"
             THEN RecordSpecifiers(Head(body).specifiers, Head(body).source, map)
             ELSE map)

\* properties every object inherits from Object.prototype whose names are
\* made of letters, digits and underscores (among others)
ObjectPrototypeKeys ==
    { <<"t", "o", "S", "t", "r", "i", "n", "g">>,
      <<"v", "a", "l", "u", "e", "O", "f">>,
      <<"c", "o", "n", "s", "t", "r", "u", "c", "t", "o", "r">> }

\* importMap[varName] on const importMap: Record<string, string> = {}: an
\* own property, else what Object.prototype holds, else undefined
LookupImport(map, varName) ==
    IF varName \in DOMAIN map
    THEN [kind |-> "string", value |-> map[varName]]
    ELSE IF varName \in ObjectPrototypeKeys
    THEN [kind |-> "function", value |-> <<>>]
    ELSE [kind |-> "undefined", value |-> <<>>]

\* !importPath
IsFalsyImport(importPath) ==
    \/ importPath.kind = "undefined"
    \/ importPath.kind = "string" /\ importPath.value = <<>>

-----------------------------------------------------------------------------
(* Formatting.                                                             *)

\* node.lang absent
NoLang == ""

\* lang.toLowerCase(), on the language tags of the inputs
ToLowerCase(lang) ==
    CASE lang = "TS" -> "ts"
      [] lang = "Json" -> "json"
      [] OTHER -> lang

GetParserForLang(lang) ==
    IF lang = NoLang THEN "babel"
    ELSE LET l == ToLowerCase(lang)
         IN  CASE l \in {"js", "jsx", "javascript"} -> "babel"
               [] l \in {"ts", "tsx", "typescript"} -> "typescript"
               [] l = "css" -> "css"
               [] l \in {"scss", "sass"} -> "scss"
               [] l \in {"html", "xml", "svg"} -> "html"
               [] l = "json" -> "json"
               [] l \in {"md", "markdown"} -> "markdown"
               [] l \in {"yaml", "yml"} -> "yaml"
               [] l \in {"graphql", "gql"} -> "graphql"
               [] OTHER -> "babel"

\* what the promise of prettier.format(text, {parser}) fulfils with: the
\* formatter is not part of the program; its output is kept apart from text
PrettierFormat(text, parser) == <<parser, ":">> \o text \o <<"\n">>

\* a variant whose catch block stores the snippet as extracted
FallbackValueUntrimmed(codeContent) == codeContent

\* line 158: node.value = codeContent.trim()
FallbackValue(codeContent) == Trim(codeContent)

-----------------------------------------------------------------------------
(* The callback of visit(tree, 'code', ...).                               *)

LogEntry(op, path, block) == [op |-> op, path |-> path, block |-> block]

\* the fs.existsSync calls of a resolution
ProbeLog(resolved, block) ==
    [i \in DOMAIN resolved.probed |->
        LogEntry("existsSync", resolved.probed[i], block)]

Thrown(error, log) ==
    [kind  |-> "throw", error |-> error, log |-> log,
     meta  |-> <<>>, value |-> <<>>, task |-> <<>>]

Skipped(node) ==
    [kind |-> "skip", error |-> "none", log |-> <<>>,
     meta |-> node.meta, value |-> node.value, task |-> <<>>]

ResolveLog(resolved, i) ==
    <<LogEntry("resolveModulePath", <<>>, i)>> \o ProbeLog(resolved, i)

ReadLog(resolved, i) ==
    Append(ResolveLog(resolved, i), LogEntry("readFileSync", resolved.path, i))

\* lines 140-166: the snippet is found; the value is set (no language tag)
\* or a formatPromise is started, and the marker is stripped from the meta
Substitute(node, i, resolved, codeContent) ==
    [kind  |-> "substitute",
     error |-> "none",
     log   |-> ReadLog(resolved, i),
     meta  |-> StripMarker(node.meta),
     value |-> IF node.lang = NoLang THEN Trim(codeContent) ELSE node.value,
     task  |-> IF node.lang = NoLang THEN <<>>
               ELSE <<[node        |-> i,
                       state       |-> "pending",
                       codeContent |-> codeContent,
                       parser      |-> GetParserForLang(node.lang)]>>]

\* lines 135-137: the throw when foundCode is falsy (or acornParse threw)
AfterExtract(node, i, resolved, extracted) ==
    IF extracted.kind # "ok"
    THEN Thrown(extracted.kind, ReadLog(resolved, i))
    ELSE Substitute(node, i, resolved, extracted.code)

\* lines 112-133: resolveModulePath may throw; the file is read and walked
AfterResolve(node, i, varName, resolved, fs) ==
    IF resolved.kind # "ok"
    THEN Thrown("ResolutionError", ResolveLog(resolved, i))
    ELSE AfterExtract(node, i, resolved, ExtractCode(fs[resolved.path], varName))

\* lines 69-112: the throw when importPath is falsy; a value that is not a
\* string makes sourcePath.startsWith (line 86) throw a TypeError
AfterLookup(node, i, varName, importPath, dir, opts, fs) ==
    IF IsFalsyImport(importPath)
    THEN Thrown("UnresolvedReferenceError", <<>>)
    ELSE IF importPath.kind # "string"
    THEN Thrown("TypeError", <<LogEntry("resolveModulePath", <<>>, i)>>)
    ELSE AfterResolve(node, i, varName,
                      ResolveModulePath(importPath.value, dir, opts, fs), fs)

\* lines 63-167 for node i of the tree: what the callback does, given the
\* import index and the file system
CodeVisitor(node, i, map, dir, opts, fs) ==
    IF LacksCodeEq(node.meta) \/ ~ MatchMarker(node.meta).matched
    THEN Skipped(node)
    ELSE AfterLookup(node, i, MatchMarker(node.meta).name,
                     LookupImport(map, MatchMarker(node.meta).name),
                     dir, opts, fs)

-----------------------------------------------------------------------------
(* The transformer.                                                        *)

OutcomePending == [state |-> "pending", error |-> "none", block |-> 0]

Rejected(error, block) == [state |-> "rejected", error |-> error, block |-> block]

\* the callback of visit(tree, 'mdxjsEsm', ...) on node idx (lines 43-58)
VisitEsm ==
    /\ pc = "esm"
    /\ idx <= Len(esm)
    /\ IF esm[idx].type = "SyntaxError"
       THEN /\ outcome' = Rejected("SyntaxError", 0)
            /\ pc' = "done"
            /\ UNCHANGED <<idx, importMap>>
       ELSE /\ importMap' = RecordImports(esm[idx].body, importMap)
            /\ idx' = idx + 1
            /\ UNCHANGED <<outcome, pc>>
    /\ UNCHANGED <<tree, esm, files, options, dirname, promises, fsLog, joins,
                   pass, treeBefore, substituted, substPrev, arg, ret>>

\* line 60: the import nodes are visited; const promises = []
BeginCodeVisit ==
    /\ pc = "esm"
    /\ idx > Len(esm)
    /\ pc' = "code"
    /\ idx' = 1
    /\ promises' = <<>>
    /\ UNCHANGED <<tree, esm, files, options, dirname, importMap, outcome,
                   fsLog, joins, pass, treeBefore, substituted, substPrev,
                   arg, ret>>

\* the callback of visit(tree, 'code', ...) on node idx (lines 62-167)
VisitCode ==
    /\ pc = "code"
    /\ idx <= Len(tree)
    /\ \E r \in {CodeVisitor(tree[idx], idx, importMap, dirname, options, files)} :
           /\ fsLog' = fsLog \o r.log
           /\ CASE r.kind = "skip" ->
                     /\ idx' = idx + 1
                     /\ UNCHANGED <<tree, promises, outcome, pc, substituted>>
                [] r.kind = "throw" ->
                     /\ outcome' = Rejected(r.error, idx)
                     /\ pc' = "done"
                     /\ UNCHANGED <<tree, promises, idx, substituted>>
                [] r.kind = "substitute" ->
                     /\ tree' = [tree EXCEPT ![idx].meta = r.meta,
                                             ![idx].value = r.value]
                     /\ promises' = promises \o r.task
                     /\ substituted' = substituted \cup {idx}
                     /\ idx' = idx + 1
                     /\ UNCHANGED <<outcome, pc>>
    /\ UNCHANGED <<esm, files, options, dirname, importMap, joins, pass,
                   treeBefore, substPrev, arg, ret>>

\* line 170: every node is visited; Promise.all(promises) is called and
\* the transformer suspends on it
JoinAll ==
    /\ pc = "code"
    /\ idx > Len(tree)
    /\ pc' = "await"
    /\ joins' = joins + 1
    /\ UNCHANGED <<tree, esm, files, options, dirname, idx, importMap,
                   promises, outcome, fsLog, pass, treeBefore, substituted,
                   substPrev, arg, ret>>

\* the synchronous part of the transformer has run to its await or to a
\* throw: only then does the job queue run the continuation of a task
Suspended == pc \in {"await", "done"}

SettleTask(k, state, value) ==
    /\ promises' = [promises EXCEPT ![k].state = state]
    /\ tree' = [tree EXCEPT ![promises[k].node].value = value]
    /\ UNCHANGED <<esm, files, options, dirname, pc, idx, importMap, outcome,
                   fsLog, joins, pass, treeBefore, substituted, substPrev,
                   arg, ret>>

\* line 155: the promise of prettier.format fulfils; node.value = the text
FormatFulfilled(k) ==
    /\ Suspended
    /\ promises[k].state = "pending"
    /\ SettleTask(k, "formatted",
                  PrettierFormat(Trim(promises[k].codeContent),
                                 promises[k].parser))

\* lines 156-159: the promise of prettier.format rejects; the catch block
FormatRejected(k) ==
    /\ Suspended
    /\ promises[k].state = "pending"
    /\ SettleTask(k, "fellBack", FallbackValue(promises[k].codeContent))

\* a variant that returns without awaiting the tasks
AllSettledNotAwaited == TRUE

\* Promise.all(promises) fulfils: no formatPromise is pending (none rejects)
AllSettled == \A k \in DOMAIN promises : promises[k].state # "pending"

\* lines 170-171: the await returns and the transformer's promise resolves
TransformerReturn ==
    /\ pc = "await"
    /\ AllSettled
    /\ pc' = "done"
    /\ outcome' = [state |-> "resolved", error |-> "none", block |-> 0]
    /\ UNCHANGED <<tree, esm, files, options, dirname, idx, importMap,
                   promises, fsLog, joins, pass, treeBefore, substituted,
                   substPrev, arg, ret>>

\* line 40: the transformer is run again on the tree it has returned
Rerun ==
    /\ pc = "done"
    /\ outcome.state = "resolved"
    /\ pass = 1
    /\ pass' = 2
    /\ pc' = "esm"
    /\ idx' = 1
    /\ importMap' = <<>>
    /\ promises' = <<>>
    /\ outcome' = OutcomePending
    /\ fsLog' = <<>>
    /\ joins' = 0
    /\ treeBefore' = tree
    /\ substPrev' = substituted
    /\ substituted' = {}
    /\ UNCHANGED <<tree, esm, files, options, dirname, arg, ret>>

-----------------------------------------------------------------------------
(* Documents and file systems the transformer is run on.                   *)

\* the value a code node holds before the transform
Original == <<"o">>

CodeNode(meta, lang) == [meta |-> meta, lang |-> lang, value |-> Original]

\* code={a}
MetaA == <<"c", "o", "d", "e", "=", "{", "a", "}">>

BlockPool ==
    { \* ```ts
      CodeNode(<<>>, "ts"),
      \* ``` title
      CodeNode(<<"t", "i", "t", "l", "e">>, NoLang),
      \* ```js code={a-b}
      CodeNode(<<"c", "o", "d", "e", "=", "{", "a", "-", "b", "}">>, "js"),
      \* ```ts code={a}
      CodeNode(MetaA, "ts"),
      \* ``` code={a}
      CodeNode(MetaA, NoLang),
      \* ```TS t code={a}  x
      CodeNode(<<"t", " ">> \o MetaA \o <<" ", " ", "x">>, "TS"),
      \* ``` code={a-b} code={a}
      CodeNode(<<"c", "o", "d", "e", "=", "{", "a", "-", "b", "}", " ">>
                   \o MetaA, NoLang),
      \* ```ts code={zz}
      CodeNode(<<"c", "o", "d", "e", "=", "{", "z", "z", "}">>, "ts"),
      \* ``` code={toString}
      CodeNode(<<"c", "o", "d", "e", "=", "{", "t", "o", "S", "t", "r", "i",
                 "n", "g", "}">>, NoLang) }

EsmPool ==
    { <<>>,
      \* import d, {a} from '@code/demo'
      <<Program(<<ImportDeclaration(
            <<ImportDefaultSpecifier(<<"d">>), ImportSpecifier(NameA)>>,
            SpecifierDemo)>>)>>,
      \* an import node acorn cannot parse
      <<SyntaxError>> }

DemoBase == PathResolve(Cwd, SrcCodeSnippets) \o <<"/", "d", "e", "m", "o">>

FsPool ==
    { <<>>,
      \* demo.ts: export const a = ` x `;   demo/index.ts: export const a = `y`;
      [p \in {DemoBase \o DefaultExtensions[1], DemoBase \o DefaultExtensions[5]}
          |-> IF p = DemoBase \o DefaultExtensions[1]
              THEN Program(<<ExportNamed(ConstTemplate(NameA, <<" ", "x", " ">>))>>)
              ELSE Program(<<ExportNamed(ConstTemplate(NameA, <<"y">>))>>)],
      \* demo.ts: a file acorn cannot parse;   /q/demo.mdx: export const a = `z`;
      [p \in {DemoBase \o DefaultExtensions[1],
              <<"/", "q", "/", "d", "e", "m", "o", ".", "m", "d", "x">>}
          |-> IF p = DemoBase \o DefaultExtensions[1]
              THEN SyntaxError
              ELSE Program(<<ExportNamed(ConstTemplate(NameA, <<"z">>))>>)] }

\* The options a caller passes to the plugin: none, or an alias override with
\* one more extension.
OptionsPool ==
    { DefaultOnly,
      [aliases    |-> <<[alias |-> AtCode, aliasPath |-> <<"/", "q">>]>>,
       extensions |-> << <<".", "m", "d", "x">> >>] }

Init ==
    /\ tree \in SeqsUpTo(BlockPool, MaxBlocks)
    /\ esm \in EsmPool
    /\ files \in FsPool
    /\ options \in OptionsPool
    /\ dirname = DocDir
    /\ pc = "esm"
    /\ idx = 1
    /\ importMap = <<>>
    /\ promises = <<>>
    /\ outcome = OutcomePending
    /\ fsLog = <<>>
    /\ joins = 0
    /\ pass = 1
    /\ treeBefore = tree
    /\ substituted = {}
    /\ substPrev = {}
    /\ arg = <<>>
    /\ ret = Pending

Next ==
    \/ VisitEsm
    \/ BeginCodeVisit
    \/ VisitCode
    \/ JoinAll
    \/ \E k \in DOMAIN promises : FormatFulfilled(k)
    \/ \E k \in DOMAIN promises : FormatRejected(k)
    \/ TransformerReturn
    \/ Rerun

Spec == Init /\ [][Next]_vars

-----------------------------------------------------------------------------
(* Properties of resolveModulePath (under SpecResolve).                    *)

\* the indices of the merged extension list, defaults first and then the
\* caller's entries, whose candidate basePath + e exists
ExistingCandidates ==
    LET exts == DefaultExtensions \o options.extensions
    IN  {i \in DOMAIN exts : (ret.basePath \o exts[i]) \in DOMAIN files}

\* C2: resolution returns basePath + e for the first entry e of the merged
\* extension list (defaults, then the caller's entries) whose file exists,
\* the earlier-listed candidate when several exist, and raises the
\* resolution error only when no candidate of the list exists.
C2_FirstExistingCandidate ==
    ret # Pending =>
        LET exts == DefaultExtensions \o options.extensions
        IN  IF ExistingCandidates = {}
            THEN ret.kind = "ResolutionError"
            ELSE /\ ret.kind = "ok"
                 /\ \E i \in ExistingCandidates :
                        /\ ret.path = ret.basePath \o exts[i]
                        /\ \A j \in ExistingCandidates : i <= j

\* X.ts and X/index.ts both exist, with a caller-supplied candidate listed
\* after them, and X.ts was returned
C2_Witness ==
    /\ ret # Pending
    /\ ret.kind = "ok"
    /\ options.extensions # <<>>
    /\ {1, 5} \subseteq ExistingCandidates
    /\ ret.path = ret.basePath \o <<".", "t", "s">>

\* the first key of the merged alias table that the specifier starts with,
\* followed by "/"; 0 when there is none
FirstMatchingAlias(sourcePath, table) ==
    LET hits == {i \in DOMAIN table :
                    StartsWith(sourcePath, table[i].alias \o <<"/">>)}
    IN  IF hits = {} THEN 0 ELSE CHOOSE i \in hits : \A j \in hits : i <= j

\* basePath/rest, the specifier with its alias substituted by hand
PreSubstituted(sourcePath, table) ==
    LET i == FirstMatchingAlias(sourcePath, table)
    IN  IF i = 0 THEN sourcePath
        ELSE table[i].aliasPath \o <<"/">>
                 \o Slice(sourcePath, Len(table[i].alias) + 1)

\* C7: a specifier alias + "/" + rest, alias being the first key of the
\* merged alias table it starts with, resolves to the same file as the path
\* basePath/rest resolved from the document's directory; a specifier that
\* starts with no alias key followed by "/" is resolved from the document's
\* directory only.
C7_AliasRoundTrip ==
    ret # Pending =>
        LET byHand == ProbeExtensions(
                          PathResolve(dirname,
                              PreSubstituted(arg.sourcePath,
                                             MergedAliases(options))),
                          options, files)
        IN  ret.kind = byHand.kind /\ ret.path = byHand.path

-----------------------------------------------------------------------------
(* Properties of the extraction (under SpecExtract).                       *)

RECURSIVE DeclaratorsOf(_)
DeclaratorsOf(decls) ==
    IF decls = <<>> THEN <<>>
    ELSE Head(decls).declarations \o DeclaratorsOf(Tail(decls))

\* every declarator of the module with the name and a template literal
MatchingDeclarators(module, varName) ==
    SelectSeq(DeclaratorsOf(WalkOrder(module)),
              LAMBDA d : DeclaratorMatches(d, varName))

\* C1: when the module declares the name as a template literal without
\* interpolation, the extraction succeeds and yields exactly the literal,
\* the empty and the whitespace-only literal included; the extraction error
\* is raised only when no declarator with the name and a template-literal
\* initializer exists.
C1_ExtractsLiteral ==
    (ret # Pending /\ arg.module # SyntaxError) =>
        LET ds == MatchingDeclarators(arg.module, arg.varName)
        IN  /\ (Len(ds) = 1 /\ ds[1].init.expressions = <<>>) =>
                   (ret.kind = "ok" /\ ret.code = ds[1].init.quasis[1])
            /\ ret.kind = "ExtractionError" => ds = <<>>

\* the declarations that are statements of the program, exported or not
TopLevelDeclarations(module) ==
    SelectSeq([i \in DOMAIN module.body |->
                  IF module.body[i].type = "ExportNamedDeclaration"
                  THEN module.body[i].declaration
                  ELSE module.body[i]],
              LAMBDA n : n.type = "VariableDeclaration")

\* C9: the extraction considers the top-level declarations only, the last
\* matching declarator in source order wins, and a same-named declaration
\* nested in a function body, a block or another declarator's initializer
\* never determines or overrides the result.
C9_TopLevelOnly ==
    (ret # Pending /\ arg.module # SyntaxError) =>
        LET found == VisitDeclarations(TopLevelDeclarations(arg.module),
                                       arg.varName, NullCode)
        IN  ret = IF IsFalsyCode(found)
                  THEN [kind |-> "ExtractionError", code |-> <<>>]
                  ELSE [kind |-> "ok", code |-> found.code]

-----------------------------------------------------------------------------
(* Properties of the transformer (under Spec).                             *)

\* the meta holds a reference marker code={identifier}
HasReferenceMarker(meta) == \E i \in 1..Len(meta) : MarkerAt(meta, i)

\* the identifier of the leftmost reference marker
MarkerName(meta) ==
    LET i == CHOOSE h \in 1..Len(meta) :
                 MarkerAt(meta, h) /\ \A j \in 1..(h - 1) : ~ MarkerAt(meta, j)
    IN  SubSeq(meta, i + Len(CodeEq),
               i + Len(CodeEq) + RunLength(meta, i + Len(CodeEq), IdentChars) - 1)

\* the callback of the code visit has run on block i in this run
Visited(i) ==
    /\ pc \in {"code", "await", "done"}
    /\ \/ i < idx
       \/ outcome.state = "rejected" /\ outcome.block = i

\* C3: a block the first run substituted has lost the marker that selected
\* its identifier, so a second run of the transform on the resulting tree
\* skips the block and leaves its value and meta unchanged.
C3_SecondRunSkips ==
    pass = 2 =>
        \A b \in substPrev :
            /\ ~ HasReferenceMarker(treeBefore[b].meta)
            /\ b \notin substituted
            /\ tree[b] = treeBefore[b]

\* C5: a block whose marker names an identifier that no named import of the
\* document binds aborts the transform with the unresolved-reference error,
\* before any path resolution or file access is attempted for the block.
C5_UnresolvedReference ==
    \A i \in DOMAIN tree :
        ( /\ Visited(i)
          /\ HasReferenceMarker(treeBefore[i].meta)
          /\ MarkerName(treeBefore[i].meta) \notin DOMAIN importMap )
        => /\ outcome = Rejected("UnresolvedReferenceError", i)
           /\ \A e \in DOMAIN fsLog : fsLog[e].block # i

NoMarkerInDocument ==
    \A i \in DOMAIN treeBefore : ~ HasReferenceMarker(treeBefore[i].meta)

\* C6 as stated: in a document none of whose code blocks holds a reference
\* marker, the transform leaves every value and meta unchanged, touches no
\* file, schedules no formatting task, and completes successfully.
C6_NoMarkerNoOpOriginal ==
    NoMarkerInDocument =>
        /\ tree = treeBefore
        /\ fsLog = <<>>
        /\ promises = <<>>
        /\ pc = "done" => outcome.state = "resolved"

\* C6 as amended: in a document none of whose code blocks holds a reference
\* marker, the transform leaves every value and meta unchanged, touches no
\* file and schedules no formatting task; it completes successfully exactly
\* when every import node parses, and otherwise rejects with the syntax
\* error of the import node.
C6_NoMarkerNoOp ==
    NoMarkerInDocument =>
        /\ tree = treeBefore
        /\ fsLog = <<>>
        /\ promises = <<>>
        /\ pc = "done" =>
              IF \E n \in DOMAIN esm : esm[n] = SyntaxError
              THEN outcome = Rejected("SyntaxError", 0)
              ELSE outcome.state = "resolved"

\* a run over two marker-less blocks, one of them with code={a-b}, has
\* completed
C6_Witness ==
    /\ NoMarkerInDocument
    /\ Len(tree) = 2
    /\ \E i \in DOMAIN tree : Includes(tree[i].meta, CodeEq)
    /\ pass = 1
    /\ pc = "done"
    /\ outcome.state = "resolved"

\* the errors the visit of a code block raises
FatalErrors ==
    {"UnresolvedReferenceError", "TypeError", "ResolutionError",
     "SyntaxError", "ExtractionError"}

\* the block of a task whose formatter call failed holds the trimmed raw
\* snippet, and its meta is the meta of the visit with the marker stripped
FellBackBlocks ==
    \A k \in DOMAIN promises :
        promises[k].state = "fellBack" =>
            /\ tree[promises[k].node].value = Trim(promises[k].codeContent)
            /\ tree[promises[k].node].meta =
                   StripMarker(treeBefore[promises[k].node].meta)

\* task k settles in this step by the failure of its formatter call
FailsInStep(k) ==
    /\ k \in DOMAIN promises'
    /\ promises[k].state = "pending"
    /\ promises'[k].state = "fellBack"

WrittenBy(k) ==
    IF promises[k].state = "formatted"
    THEN PrettierFormat(Trim(promises[k].codeContent), promises[k].parser)
    ELSE Trim(promises[k].codeContent)

\* task k settles in this step
SettlesInStep(k) ==
    /\ k \in DOMAIN promises'
    /\ promises[k].state = "pending"
    /\ promises'[k].state # "pending"

C10_NoWriteAfterSettle ==
    [][outcome.state # "pending" => tree' = tree]_vars

=============================================================================
